---------------------------- MODULE Spec2Model ----------------------------
(***************************************************************************)
(* Model of the ingestion pipeline of the unlisted-stocks backend:         *)
(*   models.py   UnlistedStock (the unlisted_stocks table, unique_hash     *)
(*               UNIQUE), create_unique_hash                               *)
(*   scraper.py  clean_text, parse_unlistedzone_page,                      *)
(*               parse_unlistedarena_page, process_and_save, run_scrapers  *)
(*                                                                         *)
(* Text is a sequence of one-character strings, so that strip, lower and   *)
(* replace are computed and not assumed.  Python's None is the value None  *)
(* where a text is expected and NoneObj where a dict is expected.          *)
(***************************************************************************)
EXTENDS Integers, Sequences, FiniteSets, TLC

(***************************************************************************)
(* Bounds of the model.                                                    *)
(***************************************************************************)
\* Ingestion flows (calls of run_scrapers, each with its own session) on one
\* store: concurrent under Spec, one after the other under SpecSequential.
NFlows == 2
\* Longest core text and longest padding of the inputs of create_unique_hash.
MaxCore == 2
MaxPad == 1

(***************************************************************************)
(* Python str and None                                                     *)
(***************************************************************************)
None == <<"None">>
NoneObj == [None |-> TRUE]

\* str.isspace() characters that occur in the model's texts
Whitespace == {" ", "\n", "\r", "\t"}

UpperCase == <<"A", "B", "C", "D", "E", "F", "G", "H", "I", "J", "K", "L", "M",
               "N", "O", "P", "Q", "R", "S", "T", "U", "V", "W", "X", "Y", "Z">>
LowerCase == <<"a", "b", "c", "d", "e", "f", "g", "h", "i", "j", "k", "l", "m",
               "n", "o", "p", "q", "r", "s", "t", "u", "v", "w", "x", "y", "z">>

lower_char(c) ==
    IF \E i \in 1..Len(UpperCase) : UpperCase[i] = c
    THEN LowerCase[CHOOSE i \in 1..Len(UpperCase) : UpperCase[i] = c]
    ELSE c

\* str.lower()
lower(s) == [i \in 1..Len(s) |-> lower_char(s[i])]

RECURSIVE lstrip(_)
lstrip(s) ==
    IF Len(s) > 0 /\ s[1] \in Whitespace THEN lstrip(SubSeq(s, 2, Len(s))) ELSE s

RECURSIVE rstrip(_)
rstrip(s) ==
    IF Len(s) > 0 /\ s[Len(s)] \in Whitespace
    THEN rstrip(SubSeq(s, 1, Len(s) - 1))
    ELSE s

\* str.strip()
strip(s) == rstrip(lstrip(s))

\* str.replace(old, new) for a one-character old; new is a text (maybe empty)
RECURSIVE replace(_, _, _)
replace(s, old, new) ==
    IF Len(s) = 0 THEN <<>>
    ELSE (IF s[1] = old THEN new ELSE <<s[1]>>)
         \o replace(SubSeq(s, 2, Len(s)), old, new)

\* sub in s
Contains(sub, s) ==
    \E i \in 0..(Len(s) - Len(sub)) : SubSeq(s, i + 1, i + Len(sub)) = sub

(***************************************************************************)
(* models.py: create_unique_hash                                           *)
(***************************************************************************)
\* hashlib.sha256(b).hexdigest(): collision resistant, so modelled as an
\* injective tagging of the hashed bytes.
sha256_hexdigest(hash_bytes) == <<"sha256:">> \o hash_bytes

\* Faulty variant: the case of the company name is kept.
create_unique_hash_keeps_case(company_name, source_url) ==
    sha256_hexdigest(strip(company_name) \o <<"|", "|">> \o lower(strip(source_url)))

create_unique_hash(company_name, source_url) ==
    sha256_hexdigest(lower(strip(company_name)) \o <<"|", "|">>
                     \o lower(strip(source_url)))

(***************************************************************************)
(* scraper.py: clean_text                                                  *)
(***************************************************************************)
clean_text(text) ==
    IF text = None \/ Len(text) = 0
    THEN None
    ELSE replace(replace(strip(text), "\n", <<" ">>), "\r", <<" ">>)

(***************************************************************************)
(* decimal.Decimal(str): surrounding whitespace is ignored; an optional     *)
(* sign, then digits with at most one point, is a decimal; the other texts *)
(* of the model raise InvalidOperation (exponents, NaN and Infinity, which *)
(* Decimal also accepts, occur in none of them).  The value keeps the      *)
(* literal.                                                                *)
(***************************************************************************)
Digits == {"0", "1", "2", "3", "4", "5", "6", "7", "8", "9"}

DecimalRaises(s) ==
    LET t == strip(s)
        u == IF Len(t) > 0 /\ t[1] \in {"+", "-"} THEN SubSeq(t, 2, Len(t)) ELSE t
    IN  \/ Len(u) = 0
        \/ \E i \in 1..Len(u) : u[i] \notin Digits \cup {"."}
        \/ Cardinality({i \in 1..Len(u) : u[i] = "."}) > 1
        \/ \A i \in 1..Len(u) : u[i] \notin Digits

Decimal(s) == strip(s)


(***************************************************************************)
(* Fetched documents.  What BeautifulSoup finds in the html:               *)
(*   h1      the text of the first <h1>, or None when there is none        *)
(*   strong  the <strong> tags in document order, each with its text and   *)
(*           the text node that follows it (None when none follows)        *)
(*   table   the table of class unlisted-price-table: its rows, each the   *)
(*           texts of its <td> cells; NoneObj when there is no such table  *)
(***************************************************************************)
Strong(text, next_sibling) == [text |-> text, next_sibling |-> next_sibling]
Table(rows) == [tr |-> rows]
Html(h1, strong, table) == [h1 |-> h1, strong |-> strong, table |-> table]

\* The labels the parsers look for
BuyPrice == <<"B", "u", "y", " ", "P", "r", "i", "c", "e">>
Sector == <<"S", "e", "c", "t", "o", "r">>
Status == <<"S", "t", "a", "t", "u", "s">>
UnlistedSharePrice ==
    <<"U", "n", "l", "i", "s", "t", "e", "d", " ", "S", "h", "a", "r", "e", " ",
      "P", "r", "i", "c", "e">>
FaceValue == <<"F", "a", "c", "e", " ", "V", "a", "l", "u", "e">>
INR == <<"I", "N", "R">>
PreIPO == <<"P", "r", "e", "-", "I", "P", "O">>
India == <<"I", "n", "d", "i", "a">>

\* item[key] = value
SetItem(item, key, value) == (key :> value) @@ item
\* item.get(key, default)
Get(item, key, default) == IF key \in DOMAIN item THEN item[key] ELSE default

(***************************************************************************)
(* scraper.py: parse_unlistedzone_page.  An exception anywhere in the try  *)
(* block makes the parser return None (NoneObj here).                      *)
(***************************************************************************)
\* The body of the loop for one <strong> tag whose text is not empty
ZoneTag(tag, tag_text, item) ==
    LET price_str == clean_text(tag.next_sibling)
        price_cleaned == strip(replace(replace(price_str, "₹", <<>>), ",", <<>>))
        priceRaises == Contains(BuyPrice, tag_text)
                       /\ (price_str = None \/ DecimalRaises(price_cleaned))
        item1 == IF Contains(BuyPrice, tag_text)
                 THEN SetItem(SetItem(item, "last_known_price", Decimal(price_cleaned)),
                              "price_currency", INR)
                 ELSE item
        item2 == IF Contains(Sector, tag_text)
                 THEN SetItem(item1, "sector", clean_text(tag.next_sibling))
                 ELSE item1
        item3 == IF Contains(Status, tag_text)
                 THEN SetItem(item2, "status", clean_text(tag.next_sibling))
                 ELSE item2
    IN  IF priceRaises THEN NoneObj ELSE item3

RECURSIVE ZoneTags(_, _)
ZoneTags(all_strong_tags, item) ==
    IF Len(all_strong_tags) = 0 THEN item
    ELSE LET tag == all_strong_tags[1]
             rest == SubSeq(all_strong_tags, 2, Len(all_strong_tags))
             tag_text == clean_text(tag.text)
         IN  IF tag_text = None THEN ZoneTags(rest, item)
             ELSE LET next == ZoneTag(tag, tag_text, item)
                  IN  IF next = NoneObj THEN NoneObj ELSE ZoneTags(rest, next)

parse_unlistedzone_page(url, html_content) ==
    IF html_content.h1 = None
    THEN NoneObj
    ELSE ZoneTags(html_content.strong,
                  [source_url |-> url, source_name |-> "UnlistedZone",
                   company_name |-> clean_text(html_content.h1)])

(***************************************************************************)
(* scraper.py: parse_unlistedarena_page                                    *)
(***************************************************************************)
\* The body of the loop for one <tr> of the price table
ArenaRow(cells, item) ==
    IF Len(cells) # 2 THEN item
    ELSE LET key_text == clean_text(cells[1])
             key == replace(key_text, ":", <<>>)
             value == clean_text(cells[2])
             price_cleaned == strip(replace(replace(value, "₹", <<>>), ",", <<>>))
         IN  IF key_text = None THEN NoneObj
             ELSE IF Contains(UnlistedSharePrice, key)
             THEN IF value = None \/ DecimalRaises(price_cleaned)
                  THEN NoneObj
                  ELSE SetItem(SetItem(item, "last_known_price", Decimal(price_cleaned)),
                               "price_currency", INR)
             ELSE IF Contains(Sector, key) THEN SetItem(item, "sector", value)
             ELSE IF Contains(FaceValue, key)
             THEN SetItem(item, "metadata",
                          SetItem(Get(item, "metadata", <<>>), "face_value", value))
             ELSE item

RECURSIVE ArenaRows(_, _)
ArenaRows(rows, item) ==
    IF Len(rows) = 0 THEN item
    ELSE LET next == ArenaRow(rows[1], item)
         IN  IF next = NoneObj THEN NoneObj
             ELSE ArenaRows(SubSeq(rows, 2, Len(rows)), next)

parse_unlistedarena_page(url, html_content) ==
    IF html_content.h1 = None
    THEN NoneObj
    ELSE LET item == [source_url |-> url, source_name |-> "UnlistedArena",
                      company_name |-> clean_text(html_content.h1)]
         IN  IF html_content.table = NoneObj THEN item
             ELSE ArenaRows(html_content.table.tr, item)


(***************************************************************************)
(* scraper.py: SCRAPER_TASKS.  The urls are shortened; they keep an upper  *)
(* case letter so that the key's lower() acts on them.                     *)
(***************************************************************************)
ZoneUrl == <<"Z", "/", "h">>
ArenaUrl == <<"a", "/", "T">>

SCRAPER_TASKS ==
    << [source_name |-> "UnlistedZone", url |-> ZoneUrl,
        parser |-> "parse_unlistedzone_page"],
       [source_name |-> "UnlistedArena", url |-> ArenaUrl,
        parser |-> "parse_unlistedarena_page"] >>

\* parser_func(target_url, response.text)
parser_func(task, html_content) ==
    IF task.parser = "parse_unlistedzone_page"
    THEN parse_unlistedzone_page(task.url, html_content)
    ELSE parse_unlistedarena_page(task.url, html_content)

(***************************************************************************)
(* What requests.get can give for a task's url: an exception (network      *)
(* error, timeout) or a response with a status code and a body.            *)
(***************************************************************************)
NoHtml == Html(None, <<>>, NoneObj)
RequestException == [raised |-> TRUE, status_code |-> 0, text |-> NoHtml]
Response(status_code, text) ==
    [raised |-> FALSE, status_code |-> status_code, text |-> text]

Colon(label) == label \o <<":">>

\* <h1>Ab</h1>, Buy Price: ₹ 1,2  Sector: Fin  Status: Listed
ZoneFull ==
    Html(<<"A", "b">>,
         << Strong(Colon(BuyPrice), <<" ", "₹", " ", "1", ",", "2", "\n">>),
            Strong(Colon(Sector), <<" ", "F", "i", "n">>),
            Strong(Colon(Status), <<"L", "i", "s", "t", "e", "d">>) >>,
         NoneObj)
\* the same company in another case, no price, and a Status label with no
\* text node after it
ZoneStatusBare ==
    Html(<<"\n", "A", "B", " ">>, << Strong(Colon(Status), None) >>, NoneObj)
\* a price that is no decimal
ZoneBadPrice ==
    Html(<<"A", "b">>,
         << Strong(Colon(Sector), <<"F", "i", "n">>),
            Strong(Colon(BuyPrice), <<"N", "/", "A">>) >>,
         NoneObj)
\* <h1> </h1>
ZoneBlankName == Html(<<" ">>, <<>>, NoneObj)
\* <h1></h1>
ZoneEmptyName == Html(<<>>, <<>>, NoneObj)

ZoneResponses ==
    { RequestException,
      Response(500, NoHtml),
      Response(200, NoHtml),
      Response(200, ZoneFull),
      Response(200, ZoneStatusBare),
      Response(200, ZoneBadPrice),
      Response(200, ZoneBlankName),
      Response(200, ZoneEmptyName) }

\* <h1>Cd</h1> and no price table
ArenaPlain == Html(<<"C", "d">>, <<>>, NoneObj)
\* a price table with price, sector and face value, and a row of three cells
ArenaFull ==
    Html(<<"c", "D", "\r">>, <<>>,
         Table(<< <<Colon(UnlistedSharePrice), <<"₹", "9", ".", "5">>>>,
                  <<Colon(Sector), <<"I", "T">>>>,
                  <<<<"x">>, <<"y">>, <<"z">>>>,
                  <<Colon(FaceValue), <<"1", "0">>>> >>))
\* a price cell that is no decimal
ArenaBadPrice ==
    Html(<<"C", "d">>, <<>>,
         Table(<< <<Colon(UnlistedSharePrice), <<"₹", "x">>>> >>))
ArenaBlankName == Html(<<"\n">>, <<>>, NoneObj)

ArenaResponses ==
    { RequestException,
      Response(404, NoHtml),
      Response(200, NoHtml),
      Response(200, ArenaPlain),
      Response(200, ArenaFull),
      Response(200, ArenaBadPrice),
      Response(200, ArenaBlankName) }

Responses(i) ==
    IF SCRAPER_TASKS[i].parser = "parse_unlistedzone_page"
    THEN ZoneResponses
    ELSE ArenaResponses

(***************************************************************************)
(* models.py: the unlisted_stocks table.  A row carries the columns the    *)
(* pipeline sets; symbol, valuation, contact_info and tags stay NULL and   *)
(* the serial id is left out.                                              *)
(***************************************************************************)
\* Faulty variant: the table has no unique constraint on unique_hash.
UniqueViolation_unconstrained(rows, new_stock) == FALSE

\* unique=True on unique_hash
UniqueViolation(rows, new_stock) ==
    \E row \in rows : row.unique_hash = new_stock.unique_hash

\* nullable=False on company_name, source_url, source_name, unique_hash
NotNullViolation(new_stock) ==
    \/ new_stock.company_name = None
    \/ new_stock.source_url = None
    \/ new_stock.unique_hash = None

\* Faulty variant: the filter matches no row.
QueryFirst_no_match(rows, hash_id) == {}

\* db.query(UnlistedStock).filter(UnlistedStock.unique_hash == hash_id).first()
QueryFirst(rows, hash_id) == {row \in rows : row.unique_hash = hash_id}

(***************************************************************************)
(* scraper.py: process_and_save, 2c: the new row                           *)
(***************************************************************************)
UnlistedStock(item, hash_id, now) ==
    [unique_hash |-> hash_id,
     company_name |-> item.company_name,
     status |-> Get(item, "status", PreIPO),
     last_known_price |-> Get(item, "last_known_price", None),
     price_currency |-> Get(item, "price_currency", INR),
     sector |-> Get(item, "sector", None),
     country |-> Get(item, "country", India),
     source_name |-> item.source_name,
     source_url |-> item.source_url,
     additional_metadata |-> Get(item, "metadata", NoneObj),
     retrieved_at |-> now]

(***************************************************************************)
(* State                                                                   *)
(***************************************************************************)
VARIABLES
    store,          \* the rows of unlisted_stocks
    clock,          \* the store's now(), one tick per insert
    web,            \* web[i]: the responses the i-th task's url can give
    pc,             \* pc[r]: where flow r is in run_scrapers
    idx,            \* idx[r]: the task of the loop
    db,             \* db[r]: the flow's session
    response,       \* response[r]: what requests.get gave for the task
    scraped_data,   \* scraped_data[r]: the parser's result for the task
    outcome,        \* outcome[r]: how the task just finished ended
    db_error,       \* db_error[r]: the store failed a statement of flow r
    hash_args,      \* two (company_name, source_url) inputs of the key
    hash_keys       \* their keys, once computed

flowVars == <<pc, idx, db, response, scraped_data, outcome, db_error>>
hashVars == <<hash_args, hash_keys>>
vars == <<store, clock, web, flowVars, hashVars>>

Flows == 1..NFlows
NTasks == Len(SCRAPER_TASKS)

Keys == {row.unique_hash : row \in store}

(***************************************************************************)
(* scraper.py: run_scrapers                                                *)
(***************************************************************************)
\* The end of the loop body: the next task, or the finally clause and return
EndTask(r, how, session) ==
    /\ outcome' = [outcome EXCEPT ![r] = how]
    /\ IF idx[r] < NTasks
       THEN /\ idx' = [idx EXCEPT ![r] = @ + 1]
            /\ pc' = [pc EXCEPT ![r] = "fetch"]
            /\ db' = [db EXCEPT ![r] = session]
       ELSE /\ pc' = [pc EXCEPT ![r] = "done"]
            /\ db' = [db EXCEPT ![r] = "closed"]
            /\ UNCHANGED idx

\* Faulty variant: no try around the loop body, the exception ends the run.
TaskException_aborts(r, session) ==
    /\ outcome' = [outcome EXCEPT ![r] = "Exception"]
    /\ pc' = [pc EXCEPT ![r] = "done"]
    /\ db' = [db EXCEPT ![r] = "closed"]
    /\ UNCHANGED idx

\* except Exception in the loop body: print and go on
TaskException(r, session) == EndTask(r, "Exception", session)

\* db = SessionLocal() and the first task
Begin(r) ==
    /\ pc' = [pc EXCEPT ![r] = "fetch"]
    /\ db' = [db EXCEPT ![r] = "active"]
    /\ UNCHANGED <<store, clock, web, idx, response, scraped_data, outcome,
                   db_error, hashVars>>

\* A process calls run_scrapers, whatever the other flows are doing
Start(r) ==
    /\ pc[r] = "idle"
    /\ Begin(r)

\* run_scrapers is called again once the call before it has returned
StartNext(r) ==
    /\ pc[r] = "idle"
    /\ \A q \in Flows : q < r => pc[q] = "done"
    /\ Begin(r)

\* requests.get raises
FetchRaises(r) ==
    /\ pc[r] = "fetch"
    /\ \E resp \in web[idx[r]] :
          /\ resp.raised
          /\ response' = [response EXCEPT ![r] = resp]
    /\ scraped_data' = [scraped_data EXCEPT ![r] = NoneObj]
    /\ TaskException(r, db[r])
    /\ UNCHANGED <<store, clock, web, db_error, hashVars>>

\* response.status_code != 200
FetchStatus(r) ==
    /\ pc[r] = "fetch"
    /\ \E resp \in web[idx[r]] :
          /\ ~resp.raised
          /\ resp.status_code # 200
          /\ response' = [response EXCEPT ![r] = resp]
    /\ scraped_data' = [scraped_data EXCEPT ![r] = NoneObj]
    /\ EndTask(r, "StatusCode", db[r])
    /\ UNCHANGED <<store, clock, web, db_error, hashVars>>

\* response.status_code == 200
Fetch200(r) ==
    /\ pc[r] = "fetch"
    /\ \E resp \in web[idx[r]] :
          /\ ~resp.raised
          /\ resp.status_code = 200
          /\ response' = [response EXCEPT ![r] = resp]
    /\ scraped_data' = [scraped_data EXCEPT ![r] = NoneObj]
    /\ outcome' = [outcome EXCEPT ![r] = "None"]
    /\ pc' = [pc EXCEPT ![r] = "parse"]
    /\ UNCHANGED <<store, clock, web, idx, db, db_error, hashVars>>

\* scraped_data = parser_func(target_url, response.text); if scraped_data: ...
Parse(r) ==
    /\ pc[r] = "parse"
    /\ LET data == parser_func(SCRAPER_TASKS[idx[r]], response[r].text)
       IN  /\ scraped_data' = [scraped_data EXCEPT ![r] = data]
           /\ IF data = NoneObj
              THEN EndTask(r, "NoData", db[r])
              ELSE /\ pc' = [pc EXCEPT ![r] = "save"]
                   /\ UNCHANGED <<idx, db, outcome>>
    /\ UNCHANGED <<store, clock, web, response, db_error, hashVars>>


(***************************************************************************)
(* scraper.py: process_and_save.  The session db[r] is "active" (usable),  *)
(* "invalid" (a statement failed and nothing rolled the transaction back:  *)
(* every statement raises until rollback) or "closed".                     *)
(***************************************************************************)
\* Faulty variant: the handlers do not roll back.
db_rollback_missing(session) == "invalid"

\* db.rollback()
db_rollback(session) == "active"

\* 2a: the key of a draft
ItemHash(item) == create_unique_hash(item.company_name, item.source_url)

hash_id(r) == ItemHash(scraped_data[r])

\* 2a: company_name is None, so company_name.strip() raises AttributeError,
\* outside any try of process_and_save
HashRaises(r) ==
    /\ pc[r] = "save"
    /\ scraped_data[r].company_name = None
    /\ TaskException(r, db[r])
    /\ UNCHANGED <<store, clock, web, response, scraped_data, db_error,
                   hashVars>>

\* 2b: the query on a session whose transaction is invalid raises
QueryInvalid(r) ==
    /\ pc[r] = "save"
    /\ scraped_data[r].company_name # None
    /\ db[r] = "invalid"
    /\ TaskException(r, db[r])
    /\ UNCHANGED <<store, clock, web, response, scraped_data, db_error,
                   hashVars>>

\* 2b: the store fails the query (connection lost, statement error).  The
\* exception leaves process_and_save; no handler rolls back, so the session is
\* left as the failure left it: usable (no connection was held) or invalid.
QueryFails(r) ==
    /\ pc[r] = "save"
    /\ scraped_data[r].company_name # None
    /\ db[r] = "active"
    /\ \E session \in {"active", "invalid"} : TaskException(r, session)
    /\ db_error' = [db_error EXCEPT ![r] = TRUE]
    /\ UNCHANGED <<store, clock, web, response, scraped_data, hashVars>>

\* Faulty variant: the stored row is updated from the draft (an upsert).
QueryExists_updates(r) ==
    /\ pc[r] = "save"
    /\ scraped_data[r].company_name # None
    /\ db[r] = "active"
    /\ QueryFirst(store, hash_id(r)) # {}
    /\ store' = {row \in store : row.unique_hash # hash_id(r)}
                \cup {UnlistedStock(scraped_data[r], hash_id(r), clock)}
    /\ EndTask(r, "Duplicate", db[r])
    /\ UNCHANGED <<clock, web, response, scraped_data, db_error,
                   hashVars>>

\* 2b: the row exists: SKIPPING (Duplicate), return
QueryExists(r) ==
    /\ pc[r] = "save"
    /\ scraped_data[r].company_name # None
    /\ db[r] = "active"
    /\ QueryFirst(store, hash_id(r)) # {}
    /\ EndTask(r, "Duplicate", db[r])
    /\ UNCHANGED <<store, clock, web, response, scraped_data, db_error,
                   hashVars>>

\* 2b: no such row: go on to 2c, 2d
QueryNone(r) ==
    /\ pc[r] = "save"
    /\ scraped_data[r].company_name # None
    /\ db[r] = "active"
    /\ QueryFirst(store, hash_id(r)) = {}
    /\ pc' = [pc EXCEPT ![r] = "commit"]
    /\ UNCHANGED <<store, clock, web, idx, db, response, scraped_data, outcome,
                   db_error, hashVars>>

new_stock(r) == UnlistedStock(scraped_data[r], hash_id(r), clock)

\* 2d: db.add, db.commit: SUCCESS (Added)
CommitAdded(r) ==
    /\ pc[r] = "commit"
    /\ ~UniqueViolation(store, new_stock(r))
    /\ ~NotNullViolation(new_stock(r))
    /\ store' = store \cup {new_stock(r)}
    /\ clock' = clock + 1
    /\ EndTask(r, "Added", db[r])
    /\ UNCHANGED <<web, response, scraped_data, db_error, hashVars>>

\* 2d: the store refuses the row: except IntegrityError: db.rollback()
CommitIntegrityError(r) ==
    /\ pc[r] = "commit"
    /\ UniqueViolation(store, new_stock(r)) \/ NotNullViolation(new_stock(r))
    /\ EndTask(r, "IntegrityError", db_rollback(db[r]))
    /\ UNCHANGED <<store, clock, web, response, scraped_data, db_error,
                   hashVars>>

\* 2d: the commit fails otherwise: except Exception: db.rollback()
CommitFails(r) ==
    /\ pc[r] = "commit"
    /\ EndTask(r, "General", db_rollback(db[r]))
    /\ db_error' = [db_error EXCEPT ![r] = TRUE]
    /\ UNCHANGED <<store, clock, web, response, scraped_data, hashVars>>

(***************************************************************************)
(* Specifications                                                          *)
(***************************************************************************)
InitFlows ==
    /\ store = {}
    /\ clock = 1
    /\ pc = [r \in Flows |-> "idle"]
    /\ idx = [r \in Flows |-> 1]
    /\ db = [r \in Flows |-> "closed"]
    /\ response = [r \in Flows |-> RequestException]
    /\ scraped_data = [r \in Flows |-> NoneObj]
    /\ outcome = [r \in Flows |-> "None"]
    /\ db_error = [r \in Flows |-> FALSE]

\* The steps a call of run_scrapers takes whatever the other calls do
Step(r) ==
    \/ FetchRaises(r)
    \/ FetchStatus(r)
    \/ Fetch200(r)
    \/ Parse(r)
    \/ HashRaises(r)
    \/ QueryInvalid(r)
    \/ QueryFails(r)
    \/ QueryExists(r)
    \/ QueryNone(r)
    \/ CommitAdded(r)
    \/ CommitFails(r)

NoHashInputs ==
    /\ hash_args = <<>>
    /\ hash_keys = <<>>

\* Concurrent flows.  Each url serves a few documents, among them two of the
\* same company that differ in case and content.
RaceWeb ==
    << {RequestException, Response(200, ZoneFull), Response(200, ZoneStatusBare),
        Response(200, ZoneEmptyName)},
       {Response(404, NoHtml), Response(200, ArenaPlain)} >>

Init ==
    /\ InitFlows
    /\ web = RaceWeb
    /\ NoHashInputs

Next == \E r \in Flows : Start(r) \/ Step(r) \/ CommitIntegrityError(r)

Spec == Init /\ [][Next]_vars

\* Calls of run_scrapers one after the other.  Either every url serves any of
\* its documents at each fetch, or every url serves one document throughout.
\* No other call stores a key between a call's existence check and its
\* commit, and the tasks' keys differ, so CommitIntegrityError is never
\* enabled and is left out of the steps.
Static == \A i \in 1..NTasks : Cardinality(web[i]) = 1

InitSequential ==
    /\ InitFlows
    /\ \/ web = [i \in 1..NTasks |-> Responses(i)]
       \/ \E z \in ZoneResponses, a \in ArenaResponses : web = << {z}, {a} >>
    /\ NoHashInputs

NextSequential == \E r \in Flows : StartNext(r) \/ Step(r)

SpecSequential == InitSequential /\ [][NextSequential]_vars


(***************************************************************************)
(* The key function on its own: two drafts whose names and urls differ     *)
(* only in letter case and in leading and trailing whitespace, and whose   *)
(* other fields differ freely.                                             *)
(***************************************************************************)
KeyChars == {"a", "A", "|"}
Pads == UNION {[1..n -> {" ", "\n"}] : n \in 0..MaxPad}
Cores == UNION {[1..n -> {"a", "|"}] : n \in 0..MaxCore}

SameLetter(x, y) ==
    \/ x = y
    \/ \E k \in 1..Len(UpperCase) : {x, y} = {UpperCase[k], LowerCase[k]}

\* s and t are of one length and differ in letter case only
DiffersInCaseOnly(s, t) ==
    /\ Len(s) = Len(t)
    /\ \A i \in 1..Len(s) : SameLetter(s[i], t[i])

IsPadding(s) == \A i \in 1..Len(s) : s[i] \in Whitespace

\* s and t differ only in letter case and leading and trailing whitespace:
\* each is padding, a core, padding, and the cores differ in case only
DiffersInCaseAndPaddingOnly(s, t) ==
    \E i, j \in 0..Len(s), k, l \in 0..Len(t) :
        /\ i <= j
        /\ k <= l
        /\ IsPadding(SubSeq(s, 1, i))
        /\ IsPadding(SubSeq(s, j + 1, Len(s)))
        /\ IsPadding(SubSeq(t, 1, k))
        /\ IsPadding(SubSeq(t, l + 1, Len(t)))
        /\ DiffersInCaseOnly(SubSeq(s, i + 1, j), SubSeq(t, k + 1, l))

CaseVariants(core) ==
    {v \in [1..Len(core) -> KeyChars] : DiffersInCaseOnly(v, core)}

Variants(core) ==
    {left \o v \o right : v \in CaseVariants(core), left \in Pads, right \in Pads}

UrlVariants(url) ==
    {url, <<" ">> \o lower(url) \o <<"\n">>}

\* The fields of a draft other than its name and url
OtherFields ==
    { [source_name |-> "UnlistedZone"],
      [source_name |-> "UnlistedArena", status |-> <<"L">>,
       last_known_price |-> <<"1">>, price_currency |-> INR] }

DraftOf(name, url, other) ==
    ("company_name" :> name) @@ ("source_url" :> url) @@ other

InitHash ==
    /\ InitFlows
    /\ web = RaceWeb
    /\ hash_keys = <<>>
    /\ \E core \in Cores, url \in {ZoneUrl, ArenaUrl} :
       \E name1 \in CaseVariants(core), name2 \in Variants(core),
          url2 \in UrlVariants(url), other \in OtherFields :
          hash_args = << DraftOf(name1, url, [source_name |-> "UnlistedZone"]),
                         DraftOf(name2, url2, other) >>

\* process_and_save 2a on each of the two drafts
ComputeHashes ==
    /\ hash_keys = <<>>
    /\ hash_keys' = << ItemHash(hash_args[1]), ItemHash(hash_args[2]) >>
    /\ UNCHANGED <<store, clock, web, flowVars, hash_args>>

NextHash == ComputeHashes

SpecHash == InitHash /\ [][NextHash]_vars


(***************************************************************************)
(* Properties                                                              *)
(***************************************************************************)
\* A task of flow r has just ended; response[r], scraped_data[r] and
\* outcome[r] are that task's.
TaskEnded(r) == outcome[r] # "None"

Fetched200(r) == ~response[r].raised /\ response[r].status_code = 200

\* The task gave a draft whose key can be computed
HasKey(r) ==
    /\ Fetched200(r)
    /\ scraped_data[r] # NoneObj
    /\ scraped_data[r].company_name # None

RowsOfHash(h) == {row \in store : row.unique_hash = h}

\* C1: at most one stored listing has any given unique_hash, whatever the
\* flows did and however they interleaved.
C1_OneListingPerHash ==
    \A row1, row2 \in store : row1.unique_hash = row2.unique_hash => row1 = row2

\* Two flows passed the existence check for one key; one added the row and
\* the other ran into the constraint.
C1_Witness ==
    \E r, q \in Flows :
        /\ r # q
        /\ outcome[r] = "IntegrityError"
        /\ pc[q] = "done"
        /\ Cardinality(RowsOfHash(hash_id(r))) = 1

\* C4: a flow that passed the existence check and finds the key stored when
\* it commits loses the race: it writes nothing, the key keeps its one row,
\* the flow ends the task as IntegrityError (General only when the store
\* failed the commit), its session is rolled back and usable, and it goes on
\* to the next task or returns.  IntegrityError is the outcome of no other
\* failure.
C4_RaceLoser ==
    [][\A r \in Flows :
          /\ (pc[r] = "commit" /\ pc'[r] # "commit" /\ hash_id(r) \in Keys) =>
                /\ store' = store
                /\ Cardinality(RowsOfHash(hash_id(r))) = 1
                /\ outcome'[r] \in {"IntegrityError", "General"}
                /\ outcome'[r] = "General" => db_error'[r]
                /\ IF idx[r] < NTasks
                   THEN pc'[r] = "fetch" /\ idx'[r] = idx[r] + 1 /\ db'[r] = "active"
                   ELSE pc'[r] = "done" /\ db'[r] = "closed"
          /\ (pc[r] = "commit" /\ outcome'[r] = "IntegrityError") =>
                hash_id(r) \in Keys
      ]_vars

\* A flow lost the race on its first task and is about to fetch the second.
C4_Witness ==
    \E r \in Flows :
        /\ outcome[r] = "IntegrityError"
        /\ pc[r] = "fetch"
        /\ db[r] = "active"
        /\ \E q \in Flows \ {r} : pc[q] \in {"fetch", "parse", "save"}

\* C5: no step removes or changes a stored row, and a step of process_and_save
\* on a draft whose key is stored leaves the store as it is.
C5_AppendOnly ==
    [][/\ \A row \in store : row \in store'
       /\ \A r \in Flows :
             ( /\ pc[r] \in {"save", "commit"}
               /\ pc'[r] \notin {"save", "commit"}
               /\ scraped_data[r].company_name # None
               /\ hash_id(r) \in Keys ) => store' = store
      ]_vars

\* A draft was skipped as a duplicate of a row whose name, status and price
\* are not the draft's.
C5_Witness ==
    \E r \in Flows : \E row \in store :
        /\ outcome[r] = "Duplicate"
        /\ row.unique_hash = hash_id(r)
        /\ row.company_name # scraped_data[r].company_name
        /\ row.last_known_price # Get(scraped_data[r], "last_known_price", None)
        /\ row.retrieved_at < clock - 1

\* C6: two drafts whose company names differ only in letter case and leading
\* and trailing whitespace, and whose urls do too, get the same key, whatever
\* their other fields are.
C6_SameKey ==
    ( /\ hash_keys # <<>>
      /\ DiffersInCaseAndPaddingOnly(hash_args[1].company_name,
                                     hash_args[2].company_name)
      /\ DiffersInCaseAndPaddingOnly(hash_args[1].source_url,
                                     hash_args[2].source_url) )
    => hash_keys[1] = hash_keys[2]

\* Keys were computed for two drafts that differ in the case and the padding
\* of the name, in the url and in their other fields.
C6_Witness ==
    /\ hash_keys # <<>>
    /\ hash_keys[1] = hash_keys[2]
    /\ Len(hash_args[1].company_name) < Len(hash_args[2].company_name)
    /\ strip(hash_args[2].company_name) # hash_args[1].company_name
    /\ hash_args[1].source_url # hash_args[2].source_url
    /\ DOMAIN hash_args[1] # DOMAIN hash_args[2]


\* The raw texts a document labels as its price, as the task's parser finds
\* them
PriceTexts(task, html) ==
    IF task.parser = "parse_unlistedzone_page"
    THEN {html.strong[i].next_sibling : i \in
             {j \in 1..Len(html.strong) :
                 /\ clean_text(html.strong[j].text) # None
                 /\ Contains(BuyPrice, clean_text(html.strong[j].text))}}
    ELSE IF html.table = NoneObj THEN {}
    ELSE {html.table.tr[i][2] : i \in
             {j \in 1..Len(html.table.tr) :
                 /\ Len(html.table.tr[j]) = 2
                 /\ clean_text(html.table.tr[j][1]) # None
                 /\ Contains(UnlistedSharePrice, clean_text(html.table.tr[j][1]))}}

\* The text is no decimal amount once the currency sign and the grouping
\* commas are gone
Unparseable(text) ==
    \/ clean_text(text) = None
    \/ DecimalRaises(replace(replace(clean_text(text), "₹", <<>>), ",", <<>>))

HasCompanyName(html) ==
    /\ html.h1 # None
    /\ clean_text(html.h1) # None
    /\ clean_text(html.h1) # <<>>

\* The task that has just ended for flow r
EndedTask(r) == SCRAPER_TASKS[IF pc[r] = "done" THEN NTasks ELSE idx[r] - 1]

BadPriceEnded(r) ==
    /\ TaskEnded(r)
    /\ Fetched200(r)
    /\ HasCompanyName(response[r].text)
    /\ \E text \in PriceTexts(EndedTask(r), response[r].text) : Unparseable(text)

\* The draft's value of a field, or the default when it has none
ValueOr(item, key, default) ==
    IF key \in DOMAIN item /\ item[key] # None THEN item[key] ELSE default

C3_TaskIsolation ==
    /\ [](\A r \in Flows :
            /\ pc[r] = "done" => idx[r] = NTasks /\ TaskEnded(r)
            /\ (TaskEnded(r) /\ HasKey(r) /\ ~db_error[r]) =>
                  /\ hash_id(r) \in Keys
                  /\ outcome[r] \in {"Added", "Duplicate"})
    /\ [][\A r \in Flows :
            /\ idx'[r] \in {idx[r], idx[r] + 1}
            /\ idx'[r] = idx[r] + 1 => TaskEnded(r)'
            /\ ( /\ pc[r] = "save"
                 /\ scraped_data[r].company_name # None
                 /\ hash_id(r) \notin Keys
                 /\ pc'[r] # "save"
                 /\ ~db_error'[r] ) => pc'[r] = "commit"
            /\ ( /\ pc[r] = "commit"
                 /\ hash_id(r) \notin Keys
                 /\ pc'[r] # "commit"
                 /\ ~db_error'[r] ) =>
                    /\ outcome'[r] = "Added"
                    /\ RowsOfHash(hash_id(r))' # {}
         ]_vars

\* The first url answers 500 and the call still stored the second task's
\* listing and returned.
C3_Witness ==
    \E r \in Flows :
        /\ web[1] = {Response(500, NoHtml)}
        /\ pc[r] = "done"
        /\ outcome[r] = "Added"
        /\ ~db_error[r]

\* C7 as claimed: the stored status, price_currency and country of a new
\* listing are the draft's where the draft has a value and the defaults
\* Pre-IPO, INR and India where it has none.
C7_DefaultsFillAbsentValues ==
    \A r \in Flows :
        (outcome[r] = "Added") =>
            \A row \in RowsOfHash(hash_id(r)) :
                /\ row.status = ValueOr(scraped_data[r], "status", PreIPO)
                /\ row.price_currency = ValueOr(scraped_data[r], "price_currency", INR)
                /\ row.country = ValueOr(scraped_data[r], "country", India)

\* C8 as claimed: a document with a company name and a labelled price that is
\* no decimal still gives a draft, without last_known_price, and the task goes
\* on to the existence check.
C8_PriceFailureIsFieldScoped ==
    \A r \in Flows :
        BadPriceEnded(r) =>
            /\ scraped_data[r] # NoneObj
            /\ "last_known_price" \notin DOMAIN scraped_data[r]
            /\ outcome[r] \in {"Added", "Duplicate", "IntegrityError", "General"}

\* C9 as claimed: no stored listing has an absent or empty company_name.
C9_NoEmptyCompanyName ==
    \A row \in store : row.company_name # None /\ row.company_name # <<>>

\* C10 as claimed: when a task starts the session is usable, whatever store
\* errors the tasks before it ran into.
C10_SessionUsableAtTaskStart ==
    \A r \in Flows : pc[r] = "fetch" => db[r] = "active"

=============================================================================
